---- MODULE Spec2Model ----
(***************************************************************************)
(* State-machine model of pterodactyl-offline-motd (src/index.js): the     *)
(* registry of status-only responders, the reconcile cycle that creates,   *)
(* refreshes and closes them, and the per-connection packet handler.       *)
(*                                                                         *)
(* Strings that the program formats and later splits on ':' are kept as    *)
(* the sequence of their ':'-separated segments, so "0.0.0.0" is           *)
(* <<"0.0.0.0">>, "::" is <<"", "", "">> and "0.0.0.0:25565" is            *)
(* <<"0.0.0.0", "25565">>.  Template formatting appends a segment, and     *)
(* String.split(':') is the identity on this representation.               *)
(***************************************************************************)
EXTENDS Integers, Sequences, FiniteSets, TLC

(* ----------------------------- bounds ---------------------------------- *)
MaxCycles == 3        \* reconcile cycles started in one behaviour
MaxOverlap == MaxCycles - 1   \* main() awaits the first cycle, the others may overlap
MaxConns == 2         \* client connections opened in one behaviour

(* ------------------------ JavaScript values ---------------------------- *)
NULL == "<null>"
UNDEF == "<undefined>"
NaN == -1
NullHost == <<>>

Truthy(v) == v \notin {NULL, UNDEF, ""}
Or(a, b) == IF Truthy(a) THEN a ELSE b
IsString(v) == v \notin {NULL, UNDEF}

HostTruthy(h) == h \notin {NullHost, <<"">>}
HostOr(a, b) == IF HostTruthy(a) THEN a ELSE b

PortTruthy(p) == p # 0 /\ p # NaN

NumStr(n) == IF n = NaN THEN "NaN" ELSE ToString(n)

Ports == {25565, 25566}

\* parseInt(s, 10): the leading decimal digits of s, NaN when there are none
parseInt(s) ==
  IF \E p \in Ports : ToString(p) = s THEN CHOOSE p \in Ports : ToString(p) = s
  ELSE IF s = "0.0.0.0" THEN 0
  ELSE IF s = "1.2.3.4" THEN 1
  ELSE NaN

(* --------------------------- addresses --------------------------------- *)
AnyHost == <<"0.0.0.0">>
PublicHost == <<"1.2.3.4">>
V6AnyHost == <<"", "", "">>
Loopback == <<"127.0.0.1">>
EmptyHost == <<"">>

(* ------------------------------ icons ---------------------------------- *)
\* fs.readFileSync: the bytes of a readable file, "<throw>" for one that is not
readFileSync(p) == IF p = "icon.png" THEN "PNG1" ELSE "<throw>"

\* Buffer.toString('base64')
base64(bytes) == IF bytes = "PNG1" THEN "UE5HMQ==" ELSE "AA=="

loadFaviconAsBase64(faviconPath) ==
  IF ~Truthy(faviconPath) THEN NULL
  ELSE IF readFileSync(faviconPath) = "<throw>" THEN NULL
  ELSE "data:image/png;base64," \o base64(readFileSync(faviconPath))

(* ------------------------------ keys ----------------------------------- *)
ipPortKey(ip, port) == ip \o <<NumStr(port)>>

(* ---------------------------- probe data ------------------------------- *)
NoPingInfo == [present |-> FALSE, description |-> UNDEF]
PingInfo(d) == [present |-> TRUE, description |-> d]

\* what MCRcon.status can do: resolve with a payload, or reject
StatusOutcomes ==
  {[ok |-> TRUE, result |-> PingInfo("Real MOTD"), message |-> ""]}
    \cup {[ok |-> FALSE, result |-> NoPingInfo, message |-> m] : m \in {"timeout", "ECONNREFUSED", "malformed response", ""}}

pingBackendThrows(o) ==
  IF o.ok THEN [online |-> TRUE, pingInfo |-> o.result, error |-> UNDEF, threw |-> FALSE]
  ELSE [online |-> FALSE, pingInfo |-> NoPingInfo, error |-> o.message, threw |-> TRUE]

pingBackend(o) ==
  IF o.ok THEN [online |-> TRUE, pingInfo |-> o.result, error |-> UNDEF, threw |-> FALSE]
  ELSE [online |-> FALSE, pingInfo |-> NoPingInfo, error |-> Or(o.message, "Error"), threw |-> FALSE]

(* --------------------------- allocations ------------------------------- *)
Alloc(ip, port, motd, icon) ==
  [ip |-> ip, port |-> port, uuid |-> "abc", offlineMotd |-> motd, faviconPath |-> icon]

\* the desired lists the inventory source or config.servers may hold
AllocationLists ==
  { <<>>,
    << Alloc(PublicHost, 25565, UNDEF, UNDEF) >>,
    << Alloc(AnyHost, 25565, "Custom offline", "icon.png") >>,
    << Alloc(EmptyHost, 25566, "", "missing.png"), Alloc(PublicHost, 0, UNDEF, UNDEF),
       Alloc(AnyHost, 25565, UNDEF, UNDEF) >> }

\* config.servers entries as reconcile() rebuilds them
StaticAlloc(s) ==
  [ip |-> s.ip, port |-> s.port, uuid |-> Or(s.uuid, NULL),
   offlineMotd |-> Or(s.offlineMotd, NULL), faviconPath |-> Or(s.faviconPath, NULL)]

StaticAllocs(list) == [n \in 1..Len(list) |-> StaticAlloc(list[n])]

\* the arrays the panel endpoint answers with
PanelLists == {l \in AllocationLists : l = <<>> \/ l[1].ip # PublicHost}

\* what fetch() of the panel endpoint can do
FetchOutcomes ==
  {[kind |-> "array", status |-> 200, body |-> l] : l \in PanelLists}
    \cup {[kind |-> "nonOK", status |-> 500, body |-> <<>>],
          [kind |-> "notArray", status |-> 200, body |-> <<>>],
          [kind |-> "throws", status |-> 0, body |-> <<>>]}

\* getAllocationsFromPanel: the list it returns and whether it warned
getAllocationsFromPanel(cfg, o) ==
  IF ~cfg.panelEndpoint THEN [allocs |-> <<>>, warned |-> FALSE]
  ELSE IF o.kind = "array" THEN [allocs |-> o.body, warned |-> FALSE]
  ELSE [allocs |-> <<>>, warned |-> TRUE]

(* ---------------------------- variables -------------------------------- *)
VARIABLES
  config,      \* parsed config.json
  servers,     \* the registry: key -> index into heap
  heap,        \* every server object created so far, closed ones included
  cyc,         \* the reconcile() invocations, by slot
  started,     \* reconcile() invocations so far
  mainPc,      \* position of main()
  completed,   \* slot of the reconcile() that returned in the last step, else 0
  lastAllocs,  \* desired list of the most recent reconcile() that obtained one
  conns,       \* client connections
  call         \* arguments of the last direct updateStatus call, if any

vars == <<config, servers, heap, cyc, started, mainPc, completed, lastAllocs, conns, call>>

BIND_HOST == HostOr(config.bindHost, AnyHost)

DefaultMotd == Or(config.defaultOfflineMotd, "Server is offline")

(* ------------------------- status responder ---------------------------- *)
\* mc.createServer(...) plus server._meta
NewServer(listenIp, port, opts) ==
  [host |-> listenIp, port |-> port,
   motd |-> Or(Or(opts.offlineMotd, config.defaultOfflineMotd), "Server is offline"),
   offlineMotd |-> Or(Or(opts.offlineMotd, config.defaultOfflineMotd), "Server is offline"),
   faviconBase64 |-> Or(opts.faviconBase64, NULL),
   backendOnline |-> FALSE,
   lastPingInfo |-> NoPingInfo,
   listen |-> "ok",
   closed |-> FALSE]

NoCall == [backendOnline |-> FALSE, pingInfo |-> NoPingInfo, offlineMotd |-> "<none>",
           faviconBase64 |-> "<none>"]

StatusArgs(backendOnline, pingInfo, om, fb) ==
  [backendOnline |-> backendOnline, pingInfo |-> pingInfo, offlineMotd |-> om, faviconBase64 |-> fb]

SelectMotdIgnoresFlag(online, info, offlineMotd) ==
  IF info.present THEN Or(info.description, offlineMotd) ELSE offlineMotd

\* the motd expression at the end of updateStatus
SelectMotd(online, info, offlineMotd) ==
  IF online /\ info.present THEN Or(info.description, offlineMotd) ELSE offlineMotd

updateStatusTruthy(srv, a) ==
  LET om == IF Truthy(a.offlineMotd) THEN a.offlineMotd ELSE srv.offlineMotd
      fb == IF Truthy(a.faviconBase64) THEN a.faviconBase64 ELSE srv.faviconBase64
  IN [srv EXCEPT !.backendOnline = a.backendOnline,
                 !.lastPingInfo = a.pingInfo,
                 !.offlineMotd = om,
                 !.faviconBase64 = fb,
                 !.motd = SelectMotd(a.backendOnline, a.pingInfo, om)]

\* server.updateStatus({ backendOnline, pingInfo, offlineMotd, faviconBase64 })
updateStatus(srv, a) ==
  LET om == IF IsString(a.offlineMotd) THEN a.offlineMotd ELSE srv.offlineMotd
      fb == IF IsString(a.faviconBase64) THEN a.faviconBase64 ELSE srv.faviconBase64
  IN [srv EXCEPT !.backendOnline = a.backendOnline,
                 !.lastPingInfo = a.pingInfo,
                 !.offlineMotd = om,
                 !.faviconBase64 = fb,
                 !.motd = SelectMotd(a.backendOnline, a.pingInfo, om)]

createStatusServerAlways(reg, hp, listenIp, port, opts) ==
  LET key == ipPortKey(listenIp, port) IN
  [servers |-> [k \in DOMAIN reg \cup {key} |-> IF k = key THEN Len(hp) + 1 ELSE reg[k]],
   heap |-> Append(hp, NewServer(listenIp, port, opts)),
   s |-> Len(hp) + 1]

\* createStatusServer: the registry, the heap and the server it returns
createStatusServer(reg, hp, listenIp, port, opts) ==
  LET key == ipPortKey(listenIp, port) IN
  IF key \in DOMAIN reg
  THEN [servers |-> reg, heap |-> hp, s |-> reg[key]]
  ELSE [servers |-> [k \in DOMAIN reg \cup {key} |-> IF k = key THEN Len(hp) + 1 ELSE reg[k]],
        heap |-> Append(hp, NewServer(listenIp, port, opts)),
        s |-> Len(hp) + 1]

closeStatusServerKeepsKey(reg, hp, listenIp, port) ==
  LET key == ipPortKey(<<listenIp>>, port) IN
  IF key \notin DOMAIN reg THEN [servers |-> reg, heap |-> hp]
  ELSE [servers |-> reg, heap |-> [hp EXCEPT ![reg[key]].closed = TRUE]]

\* closeStatusServer(listenIp, port), listenIp a string without ':'
closeStatusServer(reg, hp, listenIp, port) ==
  LET key == ipPortKey(<<listenIp>>, port) IN
  IF key \notin DOMAIN reg THEN [servers |-> reg, heap |-> hp]
  ELSE [servers |-> [k \in DOMAIN reg \ {key} |-> reg[k]],
        heap |-> [hp EXCEPT ![reg[key]].closed = TRUE]]

(* --------------------------- reconcile() ------------------------------- *)
IdleCycle ==
  [pc |-> "idle", allocs |-> <<>>, i |-> 0, wantedKeys |-> {}, s |-> 0,
   target |-> <<>>, created |-> FALSE, id |-> 0, fetch |-> "none", warned |-> FALSE, overlapped |-> FALSE,
   prev |-> <<>>, pre |-> <<>>, applied |-> <<>>]

Active(c) == c.pc \in {"fetch", "probe"}

RECURSIVE NextWithPort(_, _)
\* the next index at or after i that passes "if (!a || !a.port) continue"
NextWithPort(allocs, i) ==
  IF i > Len(allocs) THEN i
  ELSE IF PortTruthy(allocs[i].port) THEN i
  ELSE NextWithPort(allocs, i + 1)

RECURSIVE CloseUnwanted(_, _, _, _)
\* the loop over Array.from(servers.keys()) at the end of reconcile()
CloseUnwanted(reg, hp, keys, wantedKeys) ==
  IF keys = {} THEN [servers |-> reg, heap |-> hp]
  ELSE LET k == CHOOSE x \in keys : TRUE
           r == IF k \in wantedKeys THEN [servers |-> reg, heap |-> hp]
                ELSE closeStatusServer(reg, hp, k[1], parseInt(k[2]))
       IN CloseUnwanted(r.servers, r.heap, keys \ {k}, wantedKeys)

TargetIpOwn(a) == IF HostTruthy(a.ip) THEN a.ip ELSE Loopback

\* the probe target of an allocation
TargetIp(a) == IF HostTruthy(a.ip) /\ a.ip # AnyHost THEN a.ip ELSE Loopback

\* reconcile() from allocation index `from` up to its next await or its return
RunLoop(reg, hp, c, from) ==
  LET j == NextWithPort(c.allocs, from) IN
  IF j > Len(c.allocs)
  THEN LET r == CloseUnwanted(reg, hp, DOMAIN reg, c.wantedKeys)
       IN [servers |-> r.servers, heap |-> r.heap,
           c |-> [c EXCEPT !.pc = "done", !.i = j, !.s = 0, !.target = <<>>,
                           !.created = FALSE]]
  ELSE LET a == c.allocs[j]
           host == HostOr(a.ip, AnyHost)
           key == ipPortKey(host, a.port)
           fb64 == IF Truthy(a.faviconPath) THEN loadFaviconAsBase64(a.faviconPath) ELSE NULL
           r == createStatusServer(reg, hp, BIND_HOST, a.port,
                  [offlineMotd |-> Or(a.offlineMotd, config.defaultOfflineMotd),
                   faviconBase64 |-> fb64])
       IN [servers |-> r.servers, heap |-> r.heap,
           c |-> [c EXCEPT !.pc = "probe", !.i = j, !.s = r.s,
                           !.created = (r.s > Len(hp)),
                           !.wantedKeys = @ \cup {key},
                           !.target = <<TargetIp(a), a.port>>]]

\* an exception leaves reconcile(): the frame is dropped, nothing else runs
Abort(reg, hp, c) ==
  [servers |-> reg, heap |-> hp,
   c |-> [c EXCEPT !.pc = "failed", !.s = 0, !.target = <<>>, !.created = FALSE]]

FreeSlots == {p \in 1..MaxOverlap : ~Active(cyc[p])}

MainAfterNoCatch(c) ==
  IF c.pc = "done" /\ c.id = 1 THEN "interval"
  ELSE IF mainPc = "start" THEN "initial"
  ELSE mainPc

\* main() after a step of reconcile() that left it in frame c: the try/catch
\* around the first call lets main() go on to setInterval either way
MainAfter(c) ==
  IF c.pc \in {"done", "failed"} /\ c.id = 1 THEN "interval"
  ELSE IF mainPc = "start" THEN "initial"
  ELSE mainPc

\* a server object nothing refers to any more
Garbage ==
  [host |-> NullHost, port |-> 0, motd |-> NULL, offlineMotd |-> NULL, faviconBase64 |-> NULL,
   backendOnline |-> FALSE, lastPingInfo |-> NoPingInfo, listen |-> "ok", closed |-> TRUE]

\* the effect of a step of reconcile() in slot p on the shared state; the
\* frame of a reconcile() that has returned is kept until the next such step
Commit(p, r) ==
  LET cs == [q \in 1..MaxOverlap |->
               IF q = p THEN r.c
               ELSE IF Active(cyc[q]) THEN [cyc[q] EXCEPT !.overlapped = TRUE]
               ELSE IdleCycle]
      held == {r.servers[k] : k \in DOMAIN r.servers} \cup {cs[q].s : q \in 1..MaxOverlap}
  IN
  /\ servers' = r.servers
  /\ heap' = [n \in 1..Len(r.heap) |-> IF n \in held THEN r.heap[n] ELSE Garbage]
  /\ cyc' = cs
  /\ completed' = IF r.c.pc \in {"done", "failed"} THEN p ELSE 0
  /\ mainPc' = MainAfter(r.c)

\* a call of reconcile(), run up to its first await
Begin(p) ==
  LET c0 == [IdleCycle EXCEPT !.id = started + 1, !.pre = servers,
                              !.overlapped = \E q \in 1..MaxOverlap : Active(cyc[q])]
  IN /\ started' = started + 1
     /\ IF config.usePanelAllocations
        THEN /\ Commit(p, [servers |-> servers, heap |-> heap, c |-> [c0 EXCEPT !.pc = "fetch"]])
             /\ UNCHANGED lastAllocs
        ELSE IF ~config.serversIsArray
        THEN /\ Commit(p, Abort(servers, heap, c0))
             /\ UNCHANGED lastAllocs
        ELSE LET allocs == StaticAllocs(config.servers)
             IN /\ Commit(p, RunLoop(servers, heap,
                                     [c0 EXCEPT !.allocs = allocs, !.prev = lastAllocs], 1))
                /\ lastAllocs' = allocs

\* main(): the initial "await reconcile()"
MainStart ==
  /\ mainPc = "start"
  /\ Begin(1)
  /\ UNCHANGED <<config, conns, call>>

\* the setInterval callback
Tick ==
  /\ mainPc = "interval"
  /\ started < MaxCycles
  /\ FreeSlots # {}
  /\ Begin(CHOOSE p \in FreeSlots : \A q \in FreeSlots : p <= q)
  /\ UNCHANGED <<config, conns, call>>

\* "await getAllocationsFromPanel()" resumes
FetchReturn(p, o) ==
  /\ cyc[p].pc = "fetch"
  /\ LET g == getAllocationsFromPanel(config, o)
     IN /\ Commit(p, RunLoop(servers, heap,
                             [cyc[p] EXCEPT !.allocs = g.allocs, !.warned = g.warned,
                                            !.fetch = IF config.panelEndpoint THEN o.kind
                                                      ELSE "none",
                                            !.prev = lastAllocs], 1))
        /\ lastAllocs' = g.allocs
  /\ UNCHANGED <<config, started, conns, call>>

\* the updateStatus argument reconcile() builds from a probe result
ProbeArgs(bp) ==
  IF bp.online THEN StatusArgs(TRUE, bp.pingInfo, UNDEF, UNDEF)
  ELSE StatusArgs(FALSE, NoPingInfo, UNDEF, UNDEF)

\* "await pingBackend(targetIp, port)" resumes
ProbeReturn(p, o) ==
  /\ cyc[p].pc = "probe"
  /\ LET c == cyc[p]
         bp == pingBackend(o)
     IN IF bp.threw
        THEN Commit(p, Abort(servers, heap, c))
        ELSE Commit(p, RunLoop(servers,
                               [heap EXCEPT ![c.s] = updateStatus(@, ProbeArgs(bp))],
                               [c EXCEPT !.applied =
                                  Append(@, [idx |-> c.i, s |-> c.s, ok |-> o.ok,
                                             online |-> bp.online])],
                               c.i + 1))
  /\ UNCHANGED <<config, started, lastAllocs, conns, call>>

\* the server's 'error' event (port in use, permission denied); listen()
\* reports it while the reconcile() that created the server awaits its probe
BindError(n) ==
  /\ \E p \in 1..MaxOverlap : cyc[p].pc = "probe" /\ cyc[p].s = n /\ cyc[p].created
  /\ heap[n].listen = "ok"
  /\ ~heap[n].closed
  /\ heap' = [heap EXCEPT ![n].listen = "error"]
  /\ completed' = 0
  /\ UNCHANGED <<config, servers, cyc, started, mainPc, lastAllocs, conns, call>>

(* --------------------------- specification ----------------------------- *)
\* bindHost and defaultOfflineMotd of the configurations considered
BaseConfigs ==
  {<<NullHost, "Default offline">>, <<PublicHost, "Default offline">>, <<V6AnyHost, UNDEF>>}

Configs ==
  {[bindHost |-> b[1], defaultOfflineMotd |-> b[2], usePanelAllocations |-> TRUE,
    panelEndpoint |-> e, serversIsArray |-> TRUE, servers |-> <<>>] :
      b \in {x \in BaseConfigs : x[1] # PublicHost}, e \in BOOLEAN}
  \cup
  {[bindHost |-> b[1], defaultOfflineMotd |-> b[2], usePanelAllocations |-> FALSE,
    panelEndpoint |-> FALSE, serversIsArray |-> TRUE, servers |-> l] :
      b \in BaseConfigs, l \in AllocationLists}
  \cup
  \* config.servers holding a truthy value that has no map(), e.g. an object
  {[bindHost |-> NullHost, defaultOfflineMotd |-> "Default offline",
    usePanelAllocations |-> FALSE, panelEndpoint |-> FALSE, serversIsArray |-> FALSE,
    servers |-> <<>>]}

Init ==
  /\ config \in Configs
  /\ servers = <<>>
  /\ heap = <<>>
  /\ cyc = [p \in 1..MaxOverlap |-> IdleCycle]
  /\ started = 0
  /\ mainPc = "start"
  /\ completed = 0
  /\ lastAllocs = <<>>
  /\ conns = <<>>
  /\ call = NoCall

Next ==
  \/ MainStart
  \/ Tick
  \/ \E p \in 1..MaxOverlap, o \in FetchOutcomes : FetchReturn(p, o)
  \/ \E p \in 1..MaxOverlap, o \in StatusOutcomes : ProbeReturn(p, o)
  \/ \E n \in 1..Len(heap) : BindError(n)

Spec == Init /\ [][Next]_vars

(* ------------------- updateStatus called directly ---------------------- *)
\* the arguments updateStatus may be given
StatusArgSet ==
  {StatusArgs(b, i, om, fb) :
     b \in BOOLEAN,
     i \in {NoPingInfo, PingInfo("Real MOTD"), PingInfo(UNDEF), PingInfo("")},
     om \in {UNDEF, "Maintenance", ""},
     fb \in {UNDEF, "data:image/png;base64,AA=="}}

\* server.updateStatus(a) on the server at heap index n
UpdateStatusCall(n, a) ==
  /\ heap' = [heap EXCEPT ![n] = updateStatus(@, a)]
  /\ call' = a
  /\ UNCHANGED <<config, servers, cyc, started, mainPc, completed, lastAllocs, conns>>

\* one responder, as createStatusServer leaves it
InitUS ==
  /\ config \in Configs
  /\ \E om \in {UNDEF, "Custom offline"}, icon \in {UNDEF, "icon.png", "missing.png"} :
       LET r == createStatusServer(<<>>, <<>>, BIND_HOST, 25565,
                  [offlineMotd |-> Or(om, config.defaultOfflineMotd),
                   faviconBase64 |-> loadFaviconAsBase64(icon)])
       IN servers = r.servers /\ heap = r.heap
  /\ cyc = [p \in 1..MaxOverlap |-> IdleCycle]
  /\ started = 0
  /\ mainPc = "start"
  /\ completed = 0
  /\ lastAllocs = <<>>
  /\ conns = <<>>
  /\ call = NoCall

NextUS == \E n \in 1..Len(heap), a \in StatusArgSet : UpdateStatusCall(n, a)

SpecUS == InitUS /\ [][NextUS]_vars

(* ------------------------ client connections --------------------------- *)
\* a packet name, as its first five characters and the rest
SetProtocol == <<"set_p", "rotocol">>
PingStart == <<"ping_", "start">>
Ping == <<"ping", "">>
LoginStart == <<"login", "_start">>
EncryptionBegin == <<"encry", "ption_begin">>

StartsWithLoginExact(name) == name = <<"login", "">>

\* meta.name.startsWith('login')
StartsWithLogin(name) == name[1] = "login"

\* the packets a client may send: the handshake with its declared next state,
\* the status request, the ping, and packets of the login sequence
Packets ==
  {[name |-> SetProtocol, nextState |-> n] : n \in {"status", "login"}}
    \cup {[name |-> m, nextState |-> "none"] : m \in {PingStart, Ping, LoginStart, EncryptionBegin}}

NewConn(n) ==
  [server |-> n, state |-> "handshaking", declared |-> "none", ended |-> FALSE,
   endedBy |-> "none", replied |-> FALSE]

\* server.on('connection', ...)
Connect(n) ==
  /\ Len(conns) < MaxConns
  /\ n \in {servers[k] : k \in DOMAIN servers}
  /\ heap[n].listen = "ok"
  /\ conns' = Append(conns, NewConn(n))
  /\ completed' = 0
  /\ UNCHANGED <<config, servers, heap, cyc, started, mainPc, lastAllocs, call>>

\* client.on('packet', ...): the handler of the responder, then the protocol
\* library's own handling of the handshake and of the status request
ClientPacket(c, pkt) ==
  /\ ~conns[c].ended
  /\ LET k == conns[c]
         end == StartsWithLogin(pkt.name)
         hs == pkt.name = SetProtocol /\ k.state = "handshaking"
     IN conns' = [conns EXCEPT ![c] =
          [k EXCEPT !.ended = end,
                    !.endedBy = IF end THEN "responder" ELSE @,
                    !.state = IF hs THEN pkt.nextState ELSE @,
                    !.declared = IF hs THEN pkt.nextState ELSE @,
                    !.replied = @ \/ (~end /\ k.state = "status" /\ pkt.name = PingStart)]]
  /\ completed' = 0
  /\ UNCHANGED <<config, servers, heap, cyc, started, mainPc, lastAllocs, call>>

\* client.on('end') / client.on('error'): the client goes away
ClientGone(c) ==
  /\ ~conns[c].ended
  /\ conns' = [conns EXCEPT ![c].ended = TRUE, ![c].endedBy = "client"]
  /\ completed' = 0
  /\ UNCHANGED <<config, servers, heap, cyc, started, mainPc, lastAllocs, call>>

InitConn ==
  /\ Init
  /\ ~config.usePanelAllocations
  /\ config.bindHost = NullHost
  /\ Len(config.servers) = 1
  /\ config.servers[1].ip = AnyHost

NextConn ==
  \/ MainStart
  \/ Tick
  \/ \E p \in 1..MaxOverlap, o \in StatusOutcomes : ProbeReturn(p, o)
  \/ \E n \in 1..Len(heap) : BindError(n)
  \/ \E n \in 1..Len(heap) : Connect(n)
  \/ \E c \in 1..Len(conns), pkt \in Packets : ClientPacket(c, pkt)
  \/ \E c \in 1..Len(conns) : ClientGone(c)

SpecConn == InitConn /\ [][NextConn]_vars

(* ------------------------------ claims --------------------------------- *)
RegIds == {servers[k] : k \in DOMAIN servers}

Normalized(allocs) == {n \in 1..Len(allocs) : PortTruthy(allocs[n].port)}

AllocIds(allocs) == {<<allocs[n].ip, allocs[n].port>> : n \in Normalized(allocs)}

\* the desired-key set: (bind address, port) of every normalized allocation
DesiredKeys(allocs) == {ipPortKey(BIND_HOST, allocs[n].port) : n \in Normalized(allocs)}

ConfiguredMotd(a) == Or(Or(a.offlineMotd, config.defaultOfflineMotd), "Server is offline")

ConfiguredIcon(a) == loadFaviconAsBase64(a.faviconPath)

\* the reconcile() that returned in the last step, without overlap
CleanReturn ==
  /\ completed # 0
  /\ cyc[completed].pc = "done"
  /\ ~cyc[completed].overlapped

\* C1: a responder serving an allocation that is in the desired list of two
\* consecutive cycles is never closed by the later of the two cycles.
C1_ListenerKeptAcrossCycles ==
  [][\A n \in 1..Len(heap) :
       (n \in RegIds /\ n \notin RegIds' /\ completed' # 0)
         => ~\E a \in AllocIds(cyc'[completed'].allocs) \cap AllocIds(cyc'[completed'].prev) :
               a[2] = heap[n].port]_vars

\* C2: a cycle whose inventory fetch answered non-2xx logs a warning and leaves
\* every responder that was registered when it began registered and open.
C2_PanelErrorKeepsResponders ==
  (completed # 0 /\ ~cyc[completed].overlapped /\ cyc[completed].fetch = "nonOK")
    => /\ cyc[completed].warned
       /\ \A k \in DOMAIN cyc[completed].pre :
            /\ k \in DOMAIN servers
            /\ servers[k] = cyc[completed].pre[k]
            /\ ~heap[servers[k]].closed

\* C3: after a cycle over the single allocation 1.2.3.4:25565 (no offlineMotd)
\* whose probe failed, a responder is registered on bindHost:25565 and presents
\* the default offline MOTD.
C3_PublicAllocationServed ==
  (/\ CleanReturn
   /\ Len(cyc[completed].allocs) = 1
   /\ cyc[completed].allocs[1].ip = PublicHost
   /\ cyc[completed].allocs[1].port = 25565
   /\ ~Truthy(cyc[completed].allocs[1].offlineMotd)
   /\ \A j \in 1..Len(cyc[completed].applied) : ~cyc[completed].applied[j].online)
    => /\ ipPortKey(BIND_HOST, 25565) \in DOMAIN servers
       /\ ~heap[servers[ipPortKey(BIND_HOST, 25565)]].closed
       /\ heap[servers[ipPortKey(BIND_HOST, 25565)]].motd = DefaultMotd

\* C4: when a cycle returns without overlap, every registered responder's key
\* is in that cycle's desired-key set.
C4_NoUnwantedResponder ==
  CleanReturn => DOMAIN servers \subseteq DesiredKeys(cyc[completed].allocs)

\* C5: after an updateStatus call the presented motd is the payload's
\* description when online with a non-empty description, and the stored
\* offline message otherwise.
C5_StatusSelection ==
  call # NoCall =>
    \A n \in 1..Len(heap) :
      LET x == heap[n]
          d == x.lastPingInfo.description
      IN /\ (x.backendOnline /\ x.lastPingInfo.present /\ d \notin {NULL, UNDEF, ""})
              => x.motd = d
         /\ (x.backendOnline /\ x.lastPingInfo.present /\ d \in {NULL, UNDEF, ""})
              => x.motd = x.offlineMotd
         /\ (~x.backendOnline \/ ~x.lastPingInfo.present) => x.motd = x.offlineMotd

C5_Witness ==
  /\ call # NoCall
  /\ call.backendOnline
  /\ call.pingInfo = PingInfo("Real MOTD")
  /\ heap[1].offlineMotd # "Real MOTD"
  /\ heap[1].motd = "Real MOTD"

\* the last probe result a returned cycle applied to server s is entry j
LastApplied(c, j) ==
  \A j2 \in (j + 1)..Len(c.applied) : c.applied[j2].s # c.applied[j].s

\* C6: after a cycle in which an allocation's probe failed, its responder is
\* offline, holds no payload, and presents the allocation's configured offline
\* message and icon; a payload is stored only while backendOnline is true.
C6_OfflineAfterFailedProbe ==
  CleanReturn =>
    /\ \A n \in RegIds : heap[n].lastPingInfo.present => heap[n].backendOnline
    /\ \A j \in 1..Len(cyc[completed].applied) :
         LET e == cyc[completed].applied[j]
             a == cyc[completed].allocs[e.idx]
             x == heap[e.s]
         IN (~e.online /\ e.s \in RegIds /\ LastApplied(cyc[completed], j))
              => /\ ~x.backendOnline
                 /\ ~x.lastPingInfo.present
                 /\ x.motd = ConfiguredMotd(a)
                 /\ (ConfiguredIcon(a) # NULL => x.faviconBase64 = ConfiguredIcon(a))

\* C7: a connection whose handshake declared "login" is ended by the
\* responder, with no status reply, without any further client packet.
C7_LoginHandshakeCloses ==
  \A c \in 1..Len(conns) :
    conns[c].declared = "login"
      => conns[c].ended /\ conns[c].endedBy = "responder" /\ ~conns[c].replied

\* C8: when a persisting allocation's offline message or icon differs from the
\* previous cycle's, the existing responder holds the new values after the
\* cycle and is the same listener as before it.
C8_OfflineTextUpdatedInPlace ==
  CleanReturn =>
    \A n \in Normalized(cyc[completed].allocs), m \in Normalized(cyc[completed].prev) :
      LET a == cyc[completed].allocs[n]
          b == cyc[completed].prev[m]
          key == ipPortKey(BIND_HOST, a.port)
      IN (/\ a.ip = b.ip /\ a.port = b.port
          /\ (ConfiguredMotd(a) # ConfiguredMotd(b) \/ ConfiguredIcon(a) # ConfiguredIcon(b))
          /\ key \in DOMAIN cyc[completed].pre)
           => /\ key \in DOMAIN servers
              /\ servers[key] = cyc[completed].pre[key]
              /\ heap[servers[key]].offlineMotd = ConfiguredMotd(a)
              /\ heap[servers[key]].faviconBase64 = ConfiguredIcon(a)

\* C9: when a cycle ensures the responder of an allocation whose registered
\* listener has failed to bind, it creates a new listener instead of reusing
\* the failed one.
C9_FailedListenerRecreated ==
  [][\A p \in 1..MaxOverlap :
       (cyc'[p].pc = "probe" /\ (cyc[p].pc # "probe" \/ cyc[p].i # cyc'[p].i))
         => LET key == ipPortKey(BIND_HOST, cyc'[p].allocs[cyc'[p].i].port)
            IN (key \in DOMAIN servers /\ heap[servers[key]].listen = "error")
                 => cyc'[p].created /\ cyc'[p].s # servers[key]]_vars

\* the allocation indexes of the probe results a cycle applied, in order
AppliedIdx(c) == [j \in 1..Len(c.applied) |-> c.applied[j].idx]

RECURSIVE NormalizedSeq(_, _)
\* the indexes of the allocations that have a port, in list order
NormalizedSeq(allocs, i) ==
  IF i > Len(allocs) THEN <<>>
  ELSE IF PortTruthy(allocs[i].port) THEN <<i>> \o NormalizedSeq(allocs, i + 1)
  ELSE NormalizedSeq(allocs, i + 1)

Ensures(p) ==
  /\ cyc'[p].pc = "probe"
  /\ cyc[p].pc # "probe" \/ cyc[p].i # cyc'[p].i

\* C11: createStatusServer is idempotent per (address, port): when a cycle
\* ensures the responder of a key that is already registered it gets the
\* registered responder back, no listener is created, and the registry and
\* that responder's state are left as they were.
C11_CreateIsIdempotent ==
  [][\A p \in 1..MaxOverlap :
       Ensures(p)
         => LET key == ipPortKey(BIND_HOST, cyc'[p].allocs[cyc'[p].i].port)
            IN key \in DOMAIN servers
                 => /\ cyc'[p].s = servers[key]
                    /\ ~cyc'[p].created
                    /\ Len(heap') = Len(heap)
                    /\ servers' = servers
                    /\ servers[key] # cyc[p].s => heap'[servers[key]] = heap[servers[key]]]_vars

C11_Witness ==
  \E p \in 1..MaxOverlap :
    /\ cyc[p].pc = "probe"
    /\ ~cyc[p].created
    /\ cyc[p].s \in RegIds
    /\ cyc[p].allocs[cyc[p].i].offlineMotd = "Custom offline"
    /\ heap[cyc[p].s].backendOnline
    /\ heap[cyc[p].s].offlineMotd = "Custom offline"

\* C12: updateStatus always replaces the backend-online flag and the stored
\* payload with the values of the call; it leaves the stored offline message
\* as it was unless the call carries an offline message (any string, the
\* empty one included), and likewise the stored icon.
C12_UpdateStatusFrame ==
  [][\A n \in 1..Len(heap) :
       LET a == call' IN
       /\ heap'[n].backendOnline = a.backendOnline
       /\ heap'[n].lastPingInfo = a.pingInfo
       /\ heap'[n].offlineMotd =
            IF a.offlineMotd \in {UNDEF, NULL} THEN heap[n].offlineMotd ELSE a.offlineMotd
       /\ heap'[n].faviconBase64 =
            IF a.faviconBase64 \in {UNDEF, NULL} THEN heap[n].faviconBase64 ELSE a.faviconBase64
       /\ heap'[n].host = heap[n].host /\ heap'[n].port = heap[n].port
       /\ heap'[n].closed = heap[n].closed /\ heap'[n].listen = heap[n].listen]_vars

C12_Witness ==
  /\ call # NoCall
  /\ call.offlineMotd = UNDEF /\ call.faviconBase64 = UNDEF
  /\ call.backendOnline /\ call.pingInfo.present
  /\ heap[1].backendOnline /\ heap[1].lastPingInfo = call.pingInfo
  /\ heap[1].offlineMotd = ""
  /\ heap[1].faviconBase64 = "data:image/png;base64,AA=="

C14_PingBackendTotal ==
  /\ \A o \in StatusOutcomes :
       LET r == pingBackend(o)
       IN /\ ~r.threw
          /\ r.online = o.ok
          /\ o.ok => r.pingInfo.present /\ r.pingInfo = o.result
          /\ ~o.ok => ~r.pingInfo.present /\ r.error \notin {UNDEF, NULL, ""}
  /\ \A p \in 1..MaxOverlap :
       /\ cyc[p].pc = "failed" => cyc[p].allocs = <<>>
       /\ \A j \in 1..Len(cyc[p].applied) : cyc[p].applied[j].online = cyc[p].applied[j].ok

C14_Witness ==
  \E p \in 1..MaxOverlap :
    /\ Len(cyc[p].applied) = 2
    /\ ~cyc[p].applied[1].ok /\ ~cyc[p].applied[1].online
    /\ cyc[p].applied[2].ok /\ cyc[p].applied[2].online
    /\ cyc[p].applied[1].s \in RegIds
    /\ ~heap[cyc[p].applied[1].s].lastPingInfo.present
    /\ cyc[p].applied[2].s \in RegIds
    /\ heap[cyc[p].applied[2].s].lastPingInfo = PingInfo("Real MOTD")

\* C15: an allocation without a port gets no responder and no probe. For
\* every other allocation the listener is bound on the global bind address,
\* never on the allocation's own, at the allocation's port, and the probe
\* goes to 127.0.0.1:port when the allocation's address is empty or 0.0.0.0
\* and to the allocation's own address:port otherwise.
C15_BindAndProbeTargets ==
  /\ \A p \in 1..MaxOverlap :
       /\ cyc[p].pc = "probe"
            => LET a == cyc[p].allocs[cyc[p].i]
               IN /\ a.port # 0
                  /\ heap[cyc[p].s].host = BIND_HOST
                  /\ heap[cyc[p].s].port = a.port
                  /\ cyc[p].target =
                       <<IF a.ip \in {NullHost, EmptyHost, AnyHost} THEN Loopback ELSE a.ip,
                         a.port>>
       /\ \A j \in 1..Len(cyc[p].applied) : cyc[p].allocs[cyc[p].applied[j].idx].port # 0
       /\ cyc[p].pc = "done" => Len(cyc[p].applied) = Cardinality(Normalized(cyc[p].allocs))
  /\ \A n \in 1..Len(heap) : heap[n] # Garbage => heap[n].port # 0 /\ heap[n].host = BIND_HOST

C15_Witness ==
  \E p \in 1..MaxOverlap :
    /\ cyc[p].pc = "probe"
    /\ Len(cyc[p].allocs) = 3
    /\ cyc[p].allocs[2].port = 0 /\ cyc[p].allocs[2].ip = PublicHost
    /\ cyc[p].i = 3
    /\ AppliedIdx(cyc[p]) = <<1>>
    /\ cyc[p].target = <<Loopback, 25565>>
    /\ BIND_HOST = PublicHost
    /\ heap[cyc[p].s].host = PublicHost

\* C16: within a cycle every closure comes after createStatusServer has been
\* called for every allocation with a port, and the cycle's own closures never
\* take a key the cycle still wants, that is the (bind address, port) of one
\* of its allocations, out of the registry.
C16_ClosuresAfterCreations ==
  [][\A p \in 1..MaxOverlap : \A n \in RegIds :
       (n \notin RegIds' /\ completed' = p)
         => /\ cyc'[p].pc = "done"
            /\ AppliedIdx(cyc'[p]) = NormalizedSeq(cyc'[p].allocs, 1)
            /\ ipPortKey(heap[n].host, heap[n].port) \notin DesiredKeys(cyc'[p].allocs)]_vars

\* C17: in every connection state, before any handshake included, a packet
\* whose name starts with "login" (the login category) ends the connection
\* it arrives on and changes nothing else: the registry, every responder's
\* state and all other connections stay as they were.
C17_LoginPacketEndsOnlyItsConnection ==
  [][\A c \in 1..Len(conns) : \A pkt \in Packets :
       (pkt.name[1] = "login" /\ ClientPacket(c, pkt))
         => /\ conns'[c].ended
            /\ conns'[c].endedBy = "responder"
            /\ conns'[c].replied = conns[c].replied
            /\ conns'[c].state = conns[c].state
            /\ Len(conns') = Len(conns)
            /\ \A d \in 1..Len(conns) : d # c => conns'[d] = conns[d]
            /\ servers' = servers
            /\ heap' = heap
            /\ cyc' = cyc]_vars

C17_Witness ==
  \E c, d \in 1..Len(conns) :
    /\ conns[c].ended /\ conns[c].endedBy = "responder"
    /\ conns[c].state = "handshaking"
    /\ conns[d].server = conns[c].server
    /\ ~conns[d].ended /\ conns[d].state = "status"
    /\ conns[c].server \in RegIds

\* C18: once main() has begun the initial cycle, the interval timer can start
\* a new cycle whatever the earlier cycles are doing: suspended on a fetch or
\* a probe, returned, or thrown (up to the number of cycles considered).
C18_CyclesKeepStarting ==
  (started >= 1 /\ started < MaxCycles) => ENABLED Tick

\* C19: when cycles overlap, every updateStatus goes to the responder that is
\* registered under the allocation's key at the moment of the update: a cycle
\* never writes a probe result into a responder that another cycle has closed
\* and removed from the registry.
C19_UpdateTargetsRegisteredResponder ==
  [][\A p \in 1..MaxOverlap :
       (cyc[p].pc = "probe" /\ Len(cyc'[p].applied) = Len(cyc[p].applied) + 1)
         => LET key == ipPortKey(BIND_HOST, cyc[p].allocs[cyc[p].i].port)
            IN /\ key \in DOMAIN servers
               /\ servers[key] = cyc[p].s
               /\ ~heap[cyc[p].s].closed]_vars

\* C20: in every reachable state, whatever the interleaving of cycles, the
\* registry and the listeners that were created and not closed coincide:
\* every such listener is registered under exactly one key, its own
\* bind address:port; every registry entry is a listener that has not been
\* closed; and no two registered listeners have the same (address, port).
C20_RegistryMatchesListeners ==
  /\ \A k \in DOMAIN servers :
       /\ servers[k] \in 1..Len(heap)
       /\ ~heap[servers[k]].closed
       /\ k = ipPortKey(heap[servers[k]].host, heap[servers[k]].port)
  /\ \A n \in 1..Len(heap) :
       ~heap[n].closed => Cardinality({k \in DOMAIN servers : servers[k] = n}) = 1
  /\ \A k1, k2 \in DOMAIN servers :
       (heap[servers[k1]].host = heap[servers[k2]].host
          /\ heap[servers[k1]].port = heap[servers[k2]].port) => k1 = k2

C20_Witness ==
  /\ Cardinality(DOMAIN servers) = 2
  /\ \E n \in 1..Len(heap) : heap[n].closed
  /\ \E p, q \in 1..MaxOverlap : p # q /\ Active(cyc[p]) /\ Active(cyc[q])
====
